---- MODULE Spec2Model ----
(***************************************************************************)
(* Resilience layer of resilient-app: the database circuit breaker         *)
(* (database.DB around gobreaker.CircuitBreaker), the health Checker and   *)
(* its probes.                                                             *)
(*                                                                         *)
(* Every goroutine that serves a call is a worker; NWorkers bounds how     *)
(* many are inside a call at once, and                                     *)
(* goroutines are not told apart.                                          *)
(***************************************************************************)
EXTENDS Integers, Sequences, FiniteSets, Bags, TLC

VARIABLES
    dbUp,       \* whether the database answers (PingContext / Query succeed)
    env,        \* os.Getenv("FEATURE_FLAGS"), a string (sequence of tokens)
    cb,         \* DB.circuitBreaker: state, generation, counts, expiry
    probes,     \* operations invoked in the current half-open period
    startup,    \* Checker.startup
    ready,      \* Checker.ready
    initPc,     \* the start-up goroutine of NewChecker: "sleep", "lock", "done"
    wakeAt,     \* when that goroutine's time.Sleep ends
    calls,      \* the calls inside their operation: a bag, one entry a goroutine
    last,       \* the call that returned most recently, and what it returned
    dbHangs,    \* whether the database leaves a PingContext without an answer
    checks,     \* determineOverallStatus: the status of each check handed to it
    overall,    \* determineOverallStatus: what it returned ("none" before)
    shutdownFn, \* Manager.shutdownFn: the hooks, in the order of their append
    isShutdown, \* Manager.isShutdown
    appending,  \* AddShutdownHook holding Manager.mu, its append under way
    owner,      \* the Shutdown call that started the teardown goroutine (0: none)
    callers,    \* each caller of Shutdown: where it is, what it returned
    ctxDone,    \* the owner's ctx is done (deadline over or cancelled)
    tdPc,       \* the teardown goroutine's position
    hookSnap,   \* the slice its range statement iterates
    hookIdx,    \* the index of the hook it runs or runs next
    steps,      \* the teardown steps begun so far, with how each ended
    done,       \* the channel done (capacity 1)
    sent,       \* what the goroutine sent on done, and whether ctx was done then
    listening,  \* the listener of http.Server accepts connections
    active,     \* requests accepted and still being served
    dbCloses,   \* who called DB.Close, in order
    procPc,     \* the process: "running", "exited", "crashed"
    bgPc,       \* backgroundHealthCheck: "wait" at its select, "check" in HealthCheck
    bgAt,       \* when its ticker fires next
    resp        \* the HTTP response a handler wrote most recently

(* The variables of DB and Checker that every operation writes or leaves.  *)
appVars == <<dbUp, env, cb, probes, startup, ready, initPc, wakeAt, calls, last>>

(* The input and the result of determineOverallStatus on its own. *)
aggVars == <<checks, overall>>

(* The shutdown Manager, the server and the handle it tears down, main. *)
mgrVars ==
    <<shutdownFn, isShutdown, appending, owner, callers, ctxDone, tdPc,
      hookSnap, hookIdx, steps, done, sent, listening, active, dbCloses,
      procPc>>

(* The goroutine of Checker.backgroundHealthCheck. *)
bgVars == <<bgPc, bgAt>>

(* What the handlers of package handlers write. *)
httpVars == <<resp>>

(* What an operation of DB or Checker never writes. *)
others == <<dbHangs, aggVars, mgrVars, bgVars, httpVars>>

vars == <<appVars, dbHangs, aggVars, mgrVars, bgVars, httpVars>>

----------------------------------------------------------------------------
(* Bounds of the model. *)

NWorkers == 2
MaxGeneration == 4
MaxCalls == 3
TickSeconds == 5

----------------------------------------------------------------------------
(* Time, in seconds.  Instants are kept relative to the present: Now is 0, *)
(* and time passing (Tick, TickSeconds at a step) lowers every stored      *)
(* instant.  The code only asks whether an instant is before time.Now(),   *)
(* so an instant in the past is kept as Past; the zero time.Time lies      *)
(* before every other.                                                     *)

Now == 0
Past == -1
ZeroTime == -2

Before(t, u) == t < u

Later(t) ==
    IF t = ZeroTime \/ t = Past THEN t
    ELSE IF t - TickSeconds < Now THEN Past ELSE t - TickSeconds

----------------------------------------------------------------------------
(* gobreaker.Settings as NewConnection fills them in. *)

(* Other values of MaxRequests: the article's tuning advice names 5 and 10. *)
MaxRequestsTen == 10
MaxRequestsFive == 5

MaxRequests == 3

(* The Timeout of docs/resilience-patterns.md. *)
TimeoutDocs == 30
Interval == 30
Timeout == 10

(* NewCircuitBreaker: a zero MaxRequests means 1, a zero Timeout means     *)
(* 60 s, a zero Interval means the counts of Closed are never cleared.     *)
DefaultTimeout == 60

maxRequests == IF MaxRequests = 0 THEN 1 ELSE MaxRequests
interval == IF Interval <= 0 THEN 0 ELSE Interval
timeout == IF Timeout <= 0 THEN DefaultTimeout ELSE Timeout

StateClosed == "closed"
StateHalfOpen == "half-open"
StateOpen == "open"

ZeroCounts ==
    [Requests |-> 0, TotalSuccesses |-> 0, TotalFailures |-> 0,
     ConsecutiveSuccesses |-> 0, ConsecutiveFailures |-> 0]

(* The predicate of docs/resilience-patterns.md: three requests, 60 %. *)
ReadyToTripDocs(counts) ==
    counts.Requests >= 3 /\ 10 * counts.TotalFailures >= 6 * counts.Requests

(* The README's predicate. *)
ReadyToTripConsecutive(counts) ==
    counts.ConsecutiveFailures >= 2

(* failureRatio >= 0.5 with both operands small integers: exactly          *)
(* 2 * TotalFailures >= Requests; Requests = 0 gives NaN or +Inf in Go,    *)
(* and Requests >= 2 is false then.                                        *)
ReadyToTrip(counts) ==
    counts.Requests >= 2 /\ 2 * counts.TotalFailures >= counts.Requests

----------------------------------------------------------------------------
(* gobreaker.CircuitBreaker, as a record c and the time t of the call. *)

onRequest(c) ==
    [c EXCEPT !.counts.Requests = @ + 1]

countSuccess(counts) ==
    [counts EXCEPT !.TotalSuccesses = @ + 1,
                   !.ConsecutiveSuccesses = @ + 1,
                   !.ConsecutiveFailures = 0]

countFailure(counts) ==
    [counts EXCEPT !.TotalFailures = @ + 1,
                   !.ConsecutiveFailures = @ + 1,
                   !.ConsecutiveSuccesses = 0]

(* toNewGeneration without counts.clear(). *)
toNewGenerationKeepCounts(c, t) ==
    [c EXCEPT !.generation = @ + 1,
              !.expiry = CASE c.state = StateClosed ->
                                IF interval = 0 THEN ZeroTime ELSE t + interval
                           [] c.state = StateOpen -> t + timeout
                           [] OTHER -> ZeroTime]

toNewGeneration(c, t) ==
    [c EXCEPT !.generation = @ + 1,
              !.counts = ZeroCounts,
              !.expiry = CASE c.state = StateClosed ->
                                IF interval = 0 THEN ZeroTime ELSE t + interval
                           [] c.state = StateOpen -> t + timeout
                           [] OTHER -> ZeroTime]

setState(c, s, t) ==
    IF c.state = s THEN c ELSE toNewGeneration([c EXCEPT !.state = s], t)

currentState(c, t) ==
    CASE c.state = StateClosed ->
            IF c.expiry # ZeroTime /\ Before(c.expiry, t)
            THEN toNewGeneration(c, t) ELSE c
      [] c.state = StateOpen ->
            IF Before(c.expiry, t) THEN setState(c, StateHalfOpen, t) ELSE c
      [] OTHER -> c

onSuccess(c, t) ==
    CASE c.state = StateClosed -> [c EXCEPT !.counts = countSuccess(@)]
      [] c.state = StateHalfOpen ->
            LET c1 == [c EXCEPT !.counts = countSuccess(@)]
            IN  IF c1.counts.ConsecutiveSuccesses >= maxRequests
                THEN setState(c1, StateClosed, t) ELSE c1
      [] OTHER -> c

onFailure(c, t) ==
    CASE c.state = StateClosed ->
            LET c1 == [c EXCEPT !.counts = countFailure(@)]
            IN  IF ReadyToTrip(c1.counts) THEN setState(c1, StateOpen, t) ELSE c1
      [] c.state = StateHalfOpen -> setState(c, StateOpen, t)
      [] OTHER -> c

(* beforeRequest: the breaker after the call, the generation handed to the *)
(* caller and the error ("nil" when the request is let through).           *)
beforeRequest(c, t) ==
    LET c1 == currentState(c, t)
    IN  IF c1.state = StateOpen
        THEN [cb |-> c1, generation |-> c1.generation, err |-> "ErrOpenState"]
        ELSE IF c1.state = StateHalfOpen /\ c1.counts.Requests >= maxRequests
        THEN [cb |-> c1, generation |-> c1.generation, err |-> "ErrTooManyRequests"]
        ELSE [cb |-> onRequest(c1), generation |-> c1.generation, err |-> "nil"]

afterRequest(c, before, success, t) ==
    LET c1 == currentState(c, t)
    IN  IF c1.generation # before THEN c1
        ELSE IF success THEN onSuccess(c1, t) ELSE onFailure(c1, t)

----------------------------------------------------------------------------
(* Checker.getEnabledFeatures: FEATURE_FLAGS split at commas, each field   *)
(* trimmed.  A string is a sequence of tokens: a feature word, "," or " ". *)

DefaultFeatureFlags == <<"graceful_degradation", ",", "circuit_breaker">>

getEnvOrDefault(value, defaultValue) ==
    IF value # <<>> THEN value ELSE defaultValue

RECURSIVE Split(_, _)
Split(s, sep) ==
    IF \A k \in DOMAIN s : s[k] # sep THEN <<s>>
    ELSE LET k == CHOOSE j \in DOMAIN s :
                      s[j] = sep /\ \A h \in 1..(j - 1) : s[h] # sep
         IN  <<SubSeq(s, 1, k - 1)>> \o Split(SubSeq(s, k + 1, Len(s)), sep)

RECURSIVE TrimSpace(_)
TrimSpace(s) ==
    IF s = <<>> THEN s
    ELSE IF Head(s) = " " THEN TrimSpace(Tail(s))
    ELSE IF s[Len(s)] = " " THEN TrimSpace(SubSeq(s, 1, Len(s) - 1))
    ELSE s

(* getEnabledFeatures without the TrimSpace loop. *)
getEnabledFeaturesNoTrim(e) ==
    LET featureFlags == getEnvOrDefault(e, DefaultFeatureFlags)
    IN  IF featureFlags = <<>> THEN <<>> ELSE Split(featureFlags, ",")

getEnabledFeatures(e) ==
    LET featureFlags == getEnvOrDefault(e, DefaultFeatureFlags)
        features == Split(featureFlags, ",")
    IN  IF featureFlags = <<>> THEN <<>>
        ELSE [k \in DOMAIN features |-> TrimSpace(features[k])]

isGracefulDegradationEnabled(e) ==
    \E k \in DOMAIN getEnabledFeatures(e) :
        getEnabledFeatures(e)[k] = <<"graceful_degradation">>

(* The values of FEATURE_FLAGS the process may be started with. *)
EnvChoices ==
    { <<>>,
      <<"circuit_breaker">>,
      <<"circuit_breaker", ",", " ", "graceful_degradation">> }

----------------------------------------------------------------------------
(* A call inside the operation it handed to Execute: the method that made *)
(* it and the generation beforeRequest returned.                           *)

StatusHealthy == "healthy"
StatusUnhealthy == "unhealthy"
StatusDegraded == "degraded"

InOp(m, g) == [method |-> m, generation |-> g]

(* checkDatabase's context.WithTimeout. *)
CheckTimeout == 5

(* A call of HealthCheck or ReadinessCheck inside the Ping of its          *)
(* checkDatabase: dbCtx ends at deadline; shut says the call began when    *)
(* Manager.Shutdown had begun.                                             *)
InCheck(m, g, d) ==
    [method |-> m, generation |-> g, deadline |-> d, shut |-> isShutdown]

(* The call c after TickSeconds. *)
Aged(c) ==
    IF "deadline" \in DOMAIN c THEN [c EXCEPT !.deadline = Later(@)] ELSE c

(* PingContext(dbCtx) that waits for the database whatever dbCtx says. *)
PingReturnsNoTimeout(c) == ~dbHangs

(* PingContext(dbCtx) comes back: the database answers, or dbCtx is over,  *)
(* or the handle is closed.                                                *)
PingReturns(c) == ~dbHangs \/ ~Before(Now, c.deadline) \/ dbCloses # <<>>

(* The error of DB.Ping(dbCtx) when it comes back now: nil when the        *)
(* database has answered before the deadline of dbCtx, on an open handle.  *)
PingErr(c) ==
    IF dbUp /\ ~dbHangs /\ Before(Now, c.deadline) /\ dbCloses = <<>>
    THEN "nil" ELSE "opError"

NoCall ==
    [method |-> "none", err |-> "nil", db |-> "none", status |-> "none",
     ret |-> FALSE]

(* Checker.checkDatabase, from the error of DB.Ping. *)
checkDatabase(err) == IF err # "nil" THEN StatusUnhealthy ELSE StatusHealthy

checkMemory == StatusHealthy

checkFeatures(e) ==
    IF Len(getEnabledFeatures(e)) = 0 THEN StatusDegraded ELSE StatusHealthy

(* determineOverallStatus that does not ask for graceful degradation. *)
determineOverallStatusStrict(cs, e) ==
    IF StatusUnhealthy \in cs THEN StatusUnhealthy
    ELSE IF StatusDegraded \in cs THEN StatusDegraded
    ELSE StatusHealthy

(* Checker.determineOverallStatus over the statuses of the checks. *)
determineOverallStatus(cs, e) ==
    LET hasUnhealthy == StatusUnhealthy \in cs
        hasDegraded == StatusDegraded \in cs
    IN  IF hasUnhealthy /\ ~isGracefulDegradationEnabled(e) THEN StatusUnhealthy
        ELSE IF hasUnhealthy \/ hasDegraded THEN StatusDegraded
        ELSE StatusHealthy

(* What HealthCheck returns when DB.Ping returned err. *)
HealthResponse(err, e) ==
    [NoCall EXCEPT
        !.method = "HealthCheck",
        !.err = err,
        !.db = checkDatabase(err),
        !.status = determineOverallStatus(
                       {checkDatabase(err), checkMemory, checkFeatures(e)}, e)]

(* What ReadinessCheck returns when DB.Ping returned err (startup done). *)
ReadinessResult(err, e) ==
    [NoCall EXCEPT
        !.method = "ReadinessCheck",
        !.err = err,
        !.db = checkDatabase(err),
        !.ret = IF checkDatabase(err) = StatusUnhealthy
                THEN isGracefulDegradationEnabled(e) ELSE TRUE]

Methods == {"Ping", "GetUsers", "GetUser", "CreateUser"}

StartupDelay == 5

InFlight == BagToSet(calls)

(* A goroutine is free to take a new call. *)
WorkerFree == BagCardinality(calls) < NWorkers

(* Checker.mu: the read lock is held by the calls inside ReadinessCheck    *)
(* and HealthCheck; a pending Lock keeps new readers out.                  *)
Readers ==
    {c \in InFlight :
        c.method \in {"ReadinessCheck", "HealthCheck", "backgroundHealthCheck"}}

CanRLock == initPc # "lock"

(* The part of the breaker's life the model follows: MaxGeneration        *)
(* generations, MaxCalls requests in a generation of Closed.               *)
WithinBounds(c) ==
    /\ c.generation <= MaxGeneration
    /\ c.state = StateClosed => c.counts.Requests <= MaxCalls

(* probes after a step that took the breaker from c to c2 and invoked      *)
(* admitted (0 or 1) operations.                                           *)
probesAfter(c, c2, admitted) ==
    IF c2.state # StateHalfOpen THEN 0
    ELSE (IF c.state = StateHalfOpen THEN probes ELSE 0) + admitted

CheckNames == {"database", "memory", "features"}

Statuses == {StatusHealthy, StatusUnhealthy, StatusDegraded}

(* HealthResponse.Checks before any check has been put in it. *)
NoChecks == [n \in CheckNames |-> "none"]

----------------------------------------------------------------------------
(* Checker.backgroundHealthCheck and the handlers of package handlers. *)

(* time.NewTicker(30 * time.Second). *)
BackgroundInterval == 30

(* A response: the handler, the error of its dependency call ("none" when  *)
(* it made none), the status code, ErrorResponse.Code and what the body    *)
(* holds.                                                                  *)
Response(h, err, status, code, body) ==
    [handler |-> h, err |-> err, status |-> status, code |-> code, body |-> body]

NoResponse == Response("none", "none", 0, "", "")

----------------------------------------------------------------------------
(* shutdown.Manager and what main does around it. *)

(* Bounds: callers of Shutdown, hooks, requests served at once. *)
NCallers == 2
MaxHooks == 2
MaxActive == 1

Callers == 1..NCallers

(* The caller that is main (its call follows the termination signal). *)
Main == 1

(* An error value, or nil: kind is "nil", "ctx" (ctx.Err()), "server"      *)
(* (HTTP server shutdown failed), "hook" (shutdown hook %d failed, with    *)
(* the number), "close" (database close failed); "none" is no value yet.   *)
Result(kind, n) == [kind |-> kind, hook |-> n]

Nil == Result("nil", 0)

NoResult == Result("none", 0)

(* A step of the teardown: "stop", "hook" (with the hook's number in the   *)
(* slice) or "close", and how it ended: "running", "ok", "err".            *)
Step(name, n, res) == [step |-> name, hook |-> n, res |-> res]

Running == procPc = "running"

(* NewManager, before main's signal; the server serves. *)
InitManager ==
    /\ shutdownFn = <<>>
    /\ isShutdown = FALSE
    /\ appending = <<>>
    /\ owner = 0
    /\ callers = [c \in Callers |-> [pc |-> "idle", ret |-> NoResult]]
    /\ ctxDone = FALSE
    /\ tdPc = "none"
    /\ hookSnap = <<>>
    /\ hookIdx = 0
    /\ steps = <<>>
    /\ done = <<>>
    /\ sent = [res |-> NoResult, late |-> FALSE]
    /\ listening = TRUE
    /\ active = 0
    /\ dbCloses = <<>>
    /\ procPc = "running"

(* done <- v by the teardown goroutine: a Shutdown parked in its select    *)
(* takes v and returns it; otherwise v waits in the channel's buffer.      *)
Deliver(v) ==
    /\ sent' = [res |-> v, late |-> ctxDone]
    /\ IF owner # 0 /\ callers[owner].pc = "parked"
       THEN /\ callers' = [callers EXCEPT ![owner] =
                              [pc |-> "returned", ret |-> v]]
            /\ done' = done
       ELSE /\ callers' = callers
            /\ done' = <<v>>

(* The process starts with FEATURE_FLAGS one of flags. *)
InitAppWith(flags) ==
    /\ dbUp = TRUE
    /\ env \in flags
    /\ cb = toNewGeneration(
                [state |-> StateClosed, generation |-> 0,
                 counts |-> ZeroCounts, expiry |-> ZeroTime], Now)
    /\ probes = 0
    /\ startup = FALSE
    /\ ready = FALSE
    /\ initPc = "sleep"
    /\ wakeAt = Now + StartupDelay
    /\ calls = EmptyBag
    /\ last = NoCall
    /\ dbHangs = FALSE

InitApp == InitAppWith(EnvChoices)

(* NewChecker's go checker.backgroundHealthCheck(): the ticker is set. *)
InitBackground ==
    /\ bgPc = "wait"
    /\ bgAt = Now + BackgroundInterval

(* No handler has answered yet. *)
InitHTTP == resp = NoResponse

Init ==
    /\ InitApp
    /\ checks = NoChecks
    /\ overall = "none"
    /\ InitManager
    /\ InitBackground
    /\ InitHTTP

(* TickSeconds pass. *)
Tick ==
    /\ cb' = [cb EXCEPT !.expiry = Later(@)]
    /\ wakeAt' = Later(wakeAt)
    /\ calls' = BagOfAll(Aged, calls)
    /\ UNCHANGED <<dbUp, env, probes, startup, ready, initPc, last>>
    /\ UNCHANGED others

(* The database stops answering a Ping at all, or answers again. *)
DbHang ==
    /\ dbHangs' = ~dbHangs
    /\ UNCHANGED <<appVars, aggVars, mgrVars, bgVars, httpVars>>

(* The database goes down or comes back. *)
DbToggle ==
    /\ dbUp' = ~dbUp
    /\ UNCHANGED <<env, cb, probes, startup, ready, initPc, wakeAt, calls, last>>
    /\ UNCHANGED others

(* A DB method that, refused by the breaker, runs its query all the same. *)
CallBeginRetry(m) ==
    /\ WorkerFree
    /\ LET r == beforeRequest(cb, Now)
       IN  /\ WithinBounds(r.cb)
           /\ cb' = r.cb
           /\ probes' = probesAfter(cb, r.cb, 1)
           /\ calls' = calls (+) SetToBag({InOp(m, r.generation)})
           /\ last' = last
    /\ UNCHANGED <<dbUp, env, startup, ready, initPc, wakeAt>>
    /\ UNCHANGED others

(* A DB method that asks DB.GetState first and refuses unless the breaker  *)
(* is closed.                                                              *)
CallBeginClosedOnly(m) ==
    /\ WorkerFree
    /\ LET c1 == currentState(cb, Now)
           r == beforeRequest(c1, Now)
       IN  /\ WithinBounds(r.cb)
           /\ IF c1.state # StateClosed
              THEN /\ cb' = c1
                   /\ probes' = probesAfter(cb, c1, 0)
                   /\ calls' = calls
                   /\ last' = [NoCall EXCEPT !.method = m, !.err = "ErrOpenState"]
              ELSE /\ cb' = r.cb
                   /\ probes' = probesAfter(cb, r.cb, 1)
                   /\ calls' = calls (+) SetToBag({InOp(m, r.generation)})
                   /\ last' = last
    /\ UNCHANGED <<dbUp, env, startup, ready, initPc, wakeAt>>
    /\ UNCHANGED others

(* DB.Ping, DB.GetUsers, DB.GetUser, DB.CreateUser up to the point where   *)
(* Execute has run beforeRequest and either entered the operation or       *)
(* returned beforeRequest's error.                                         *)
CallBegin(m) ==
    /\ WorkerFree
    /\ LET r == beforeRequest(cb, Now)
       IN  /\ WithinBounds(r.cb)
           /\ cb' = r.cb
           /\ probes' = probesAfter(cb, r.cb, IF r.err = "nil" THEN 1 ELSE 0)
           /\ IF r.err = "nil"
              THEN /\ calls' = calls (+) SetToBag({InOp(m, r.generation)})
                   /\ last' = last
              ELSE /\ calls' = calls
                   /\ last' = [NoCall EXCEPT !.method = m, !.err = r.err]
    /\ UNCHANGED <<dbUp, env, startup, ready, initPc, wakeAt>>
    /\ UNCHANGED others

(* A method that reports the result of its operation to the breaker only  *)
(* while the breaker is closed.                                            *)
CallEndClosedOnly(c) ==
    /\ c \in InFlight
    /\ c.method \in Methods
    /\ LET c2 == IF cb.state = StateClosed
                 THEN afterRequest(cb, c.generation, dbUp, Now) ELSE cb
       IN  /\ WithinBounds(c2)
           /\ cb' = c2
           /\ probes' = probesAfter(cb, c2, 0)
    /\ calls' = calls (-) SetToBag({c})
    /\ last' = [NoCall EXCEPT !.method = c.method,
                              !.err = IF dbUp THEN "nil" ELSE "opError"]
    /\ UNCHANGED <<dbUp, env, startup, ready, initPc, wakeAt>>
    /\ UNCHANGED others

(* A method whose result is counted in whatever generation it returns in. *)
CallEndAnyGeneration(c) ==
    /\ c \in InFlight
    /\ c.method \in Methods
    /\ LET c2 == afterRequest(cb, currentState(cb, Now).generation, dbUp, Now)
       IN  /\ WithinBounds(c2)
           /\ cb' = c2
           /\ probes' = probesAfter(cb, c2, 0)
    /\ calls' = calls (-) SetToBag({c})
    /\ last' = [NoCall EXCEPT !.method = c.method,
                              !.err = IF dbUp THEN "nil" ELSE "opError"]
    /\ UNCHANGED <<dbUp, env, startup, ready, initPc, wakeAt>>
    /\ UNCHANGED others

(* A method whose operation returns without Execute's afterRequest. *)
CallEndUncounted(c) ==
    /\ c \in InFlight
    /\ c.method \in Methods
    /\ calls' = calls (-) SetToBag({c})
    /\ last' = [NoCall EXCEPT !.method = c.method,
                              !.err = IF dbUp THEN "nil" ELSE "opError"]
    /\ UNCHANGED <<dbUp, env, cb, probes, startup, ready, initPc, wakeAt>>
    /\ UNCHANGED others

(* The operation of call c returns (it succeeds iff the database answers), *)
(* Execute runs afterRequest, and the method returns.                      *)
CallEnd(c) ==
    /\ c \in InFlight
    /\ c.method \in Methods
    /\ LET c2 == afterRequest(cb, c.generation, dbUp, Now)
       IN  /\ WithinBounds(c2)
           /\ cb' = c2
           /\ probes' = probesAfter(cb, c2, 0)
    /\ calls' = calls (-) SetToBag({c})
    /\ last' = [NoCall EXCEPT !.method = c.method,
                              !.err = IF dbUp THEN "nil" ELSE "opError"]
    /\ UNCHANGED <<dbUp, env, startup, ready, initPc, wakeAt>>
    /\ UNCHANGED others

(* DB.GetState: CircuitBreaker.State() runs currentState. *)
GetState ==
    /\ LET c2 == currentState(cb, Now)
       IN  /\ WithinBounds(c2)
           /\ cb' = c2
           /\ probes' = probesAfter(cb, c2, 0)
    /\ UNCHANGED <<dbUp, env, startup, ready, initPc, wakeAt, calls, last>>
    /\ UNCHANGED others

(* The goroutine without its time.Sleep. *)
StartupWakeNoSleep ==
    /\ initPc = "sleep"
    /\ initPc' = "lock"
    /\ UNCHANGED <<dbUp, env, cb, probes, startup, ready, wakeAt, calls, last>>
    /\ UNCHANGED others

(* NewChecker's goroutine: time.Sleep(5 s) ends, and it asks for the lock. *)
StartupWake ==
    /\ initPc = "sleep"
    /\ ~Before(Now, wakeAt)
    /\ initPc' = "lock"
    /\ UNCHANGED <<dbUp, env, cb, probes, startup, ready, wakeAt, calls, last>>
    /\ UNCHANGED others

(* It holds the lock, sets startup and unlocks. *)
StartupFlip ==
    /\ initPc = "lock"
    /\ Readers = {}
    /\ startup' = TRUE
    /\ initPc' = "done"
    /\ UNCHANGED <<dbUp, env, cb, probes, ready, wakeAt, calls, last>>
    /\ UNCHANGED others

(* Checker.StartupCheck. *)
StartupCheck ==
    /\ WorkerFree
    /\ CanRLock
    /\ last' = [NoCall EXCEPT !.method = "StartupCheck", !.ret = startup]
    /\ UNCHANGED <<dbUp, env, cb, probes, startup, ready, initPc, wakeAt, calls>>
    /\ UNCHANGED others

(* ReadinessCheck with checkDatabase called before startup is looked at.   *)
ReadinessBeginProbeFirst ==
    /\ WorkerFree
    /\ CanRLock
    /\ LET r == beforeRequest(cb, Now)
       IN  /\ WithinBounds(r.cb)
           /\ cb' = r.cb
           /\ probes' = probesAfter(cb, r.cb, IF r.err = "nil" THEN 1 ELSE 0)
           /\ IF r.err = "nil"
              THEN /\ calls' = calls (+)
                          SetToBag({InCheck("ReadinessCheck", r.generation,
                                           Now + CheckTimeout)})
                   /\ last' = last
              ELSE /\ calls' = calls
                   /\ last' = IF ~startup
                              THEN [NoCall EXCEPT !.method = "ReadinessCheck"]
                              ELSE ReadinessResult(r.err, env)
    /\ UNCHANGED <<dbUp, env, startup, ready, initPc, wakeAt>>
    /\ UNCHANGED others

(* Checker.ReadinessCheck up to the point where checkDatabase's Ping is    *)
(* inside its operation, or to its return when it does not get there.      *)
ReadinessBegin ==
    /\ WorkerFree
    /\ CanRLock
    /\ IF ~startup
       THEN /\ last' = [NoCall EXCEPT !.method = "ReadinessCheck"]
            /\ UNCHANGED <<cb, probes, calls>>
       ELSE /\ LET r == beforeRequest(cb, Now)
               IN  /\ WithinBounds(r.cb)
                   /\ cb' = r.cb
                   /\ probes' = probesAfter(cb, r.cb, IF r.err = "nil" THEN 1 ELSE 0)
                   /\ IF r.err = "nil"
                      THEN /\ calls' = calls (+)
                                  SetToBag({InCheck("ReadinessCheck", r.generation,
                                           Now + CheckTimeout)})
                           /\ last' = last
                      ELSE /\ calls' = calls
                           /\ last' = ReadinessResult(r.err, env)
    /\ UNCHANGED <<dbUp, env, startup, ready, initPc, wakeAt>>
    /\ UNCHANGED others

(* A ReadinessCheck that sets c.ready whenever it returns true. *)
ReadinessEndReadyOnTrue(c) ==
    /\ c \in InFlight
    /\ c.method = "ReadinessCheck"
    /\ PingReturns(c)
    /\ LET c2 == afterRequest(cb, c.generation, PingErr(c) = "nil", Now)
       IN  /\ WithinBounds(c2)
           /\ cb' = c2
           /\ probes' = probesAfter(cb, c2, 0)
    /\ calls' = calls (-) SetToBag({c})
    /\ LET err == PingErr(c)
       IN  /\ ready' = IF ReadinessResult(err, env).ret THEN TRUE ELSE ready
           /\ last' = ReadinessResult(err, env)
    /\ UNCHANGED <<dbUp, env, startup, initPc, wakeAt>>
    /\ UNCHANGED others

(* The Ping of ReadinessCheck call c returns; the check is judged and the  *)
(* read lock released.                                                     *)
ReadinessEnd(c) ==
    /\ c \in InFlight
    /\ c.method = "ReadinessCheck"
    /\ PingReturns(c)
    /\ LET c2 == afterRequest(cb, c.generation, PingErr(c) = "nil", Now)
       IN  /\ WithinBounds(c2)
           /\ cb' = c2
           /\ probes' = probesAfter(cb, c2, 0)
    /\ calls' = calls (-) SetToBag({c})
    /\ LET err == PingErr(c)
       IN  /\ ready' = IF checkDatabase(err) = StatusUnhealthy THEN ready ELSE TRUE
           /\ last' = ReadinessResult(err, env)
    /\ UNCHANGED <<dbUp, env, startup, initPc, wakeAt>>
    /\ UNCHANGED others

(* A HealthCheck whose checkDatabase pings the handle past the breaker. *)
HealthCheckBeginUngated ==
    /\ WorkerFree
    /\ CanRLock
    /\ calls' = calls (+)
           SetToBag({InCheck("HealthCheck", cb.generation, Now + CheckTimeout)})
    /\ UNCHANGED <<dbUp, env, cb, probes, startup, ready, initPc, wakeAt, last>>
    /\ UNCHANGED others

(* Checker.IsReady. *)
IsReady ==
    /\ WorkerFree
    /\ CanRLock
    /\ last' = [NoCall EXCEPT !.method = "IsReady", !.ret = ready]
    /\ UNCHANGED <<dbUp, env, cb, probes, startup, ready, initPc, wakeAt, calls>>
    /\ UNCHANGED others

(* Checker.HealthCheck (the /health handler's call or the background       *)
(* ticker's) up to the point where checkDatabase's Ping is inside its      *)
(* operation, or to its return when the breaker refuses the Ping.          *)
HealthCheckBegin ==
    /\ WorkerFree
    /\ CanRLock
    /\ LET r == beforeRequest(cb, Now)
       IN  /\ WithinBounds(r.cb)
           /\ cb' = r.cb
           /\ probes' = probesAfter(cb, r.cb, IF r.err = "nil" THEN 1 ELSE 0)
           /\ IF r.err = "nil"
              THEN /\ calls' = calls (+)
                          SetToBag({InCheck("HealthCheck", r.generation,
                                           Now + CheckTimeout)})
                   /\ last' = last
              ELSE /\ calls' = calls
                   /\ last' = HealthResponse(r.err, env)
    /\ UNCHANGED <<dbUp, env, startup, ready, initPc, wakeAt>>
    /\ UNCHANGED others

(* A HealthCheck that, like ReadinessCheck, sets c.ready after a healthy   *)
(* database check.                                                         *)
HealthCheckEndSetsReady(c) ==
    /\ c \in InFlight
    /\ c.method = "HealthCheck"
    /\ PingReturns(c)
    /\ LET c2 == afterRequest(cb, c.generation, PingErr(c) = "nil", Now)
       IN  /\ WithinBounds(c2)
           /\ cb' = c2
           /\ probes' = probesAfter(cb, c2, 0)
    /\ calls' = calls (-) SetToBag({c})
    /\ last' = HealthResponse(PingErr(c), env)
    /\ ready' = IF PingErr(c) = "nil" THEN TRUE ELSE ready
    /\ UNCHANGED <<dbUp, env, startup, initPc, wakeAt>>
    /\ UNCHANGED others

(* The Ping of HealthCheck call c returns; the checks are aggregated and   *)
(* the read lock released.                                                 *)
HealthCheckEnd(c) ==
    /\ c \in InFlight
    /\ c.method = "HealthCheck"
    /\ PingReturns(c)
    /\ LET c2 == afterRequest(cb, c.generation, PingErr(c) = "nil", Now)
       IN  /\ WithinBounds(c2)
           /\ cb' = c2
           /\ probes' = probesAfter(cb, c2, 0)
    /\ calls' = calls (-) SetToBag({c})
    /\ last' = HealthResponse(PingErr(c), env)
    /\ UNCHANGED <<dbUp, env, startup, ready, initPc, wakeAt>>
    /\ UNCHANGED others

(* Manager.AddShutdownHook: mu.Lock, and the append begins.  The hook is  *)
(* known by its number in the slice; late says Shutdown had begun.         *)
AddShutdownHookBegin ==
    /\ Running
    /\ appending = <<>>
    /\ Len(shutdownFn) < MaxHooks
    /\ appending' = <<[id |-> Len(shutdownFn) + 1, late |-> isShutdown]>>
    /\ UNCHANGED <<shutdownFn, isShutdown, owner, callers, ctxDone, tdPc,
                   hookSnap, hookIdx, steps, done, sent, listening, active,
                   dbCloses, procPc>>
    /\ UNCHANGED <<appVars, dbHangs, aggVars, bgVars, httpVars>>

(* The append is stored in m.shutdownFn, and mu is unlocked. *)
AddShutdownHookEnd ==
    /\ Running
    /\ appending # <<>>
    /\ shutdownFn' = Append(shutdownFn, appending[1])
    /\ appending' = <<>>
    /\ UNCHANGED <<isShutdown, owner, callers, ctxDone, tdPc, hookSnap,
                   hookIdx, steps, done, sent, listening, active, dbCloses,
                   procPc>>
    /\ UNCHANGED <<appVars, dbHangs, aggVars, bgVars, httpVars>>

(* Shutdown without the isShutdown test: every call starts a teardown. *)
ShutdownNoFlag(c) ==
    /\ Running
    /\ callers[c].pc = "idle"
    /\ appending = <<>>
    /\ isShutdown' = TRUE
    /\ owner' = c
    /\ tdPc' = "server"
    /\ callers' = [callers EXCEPT ![c].pc = "select"]
    /\ \E d \in BOOLEAN : ctxDone' = d
    /\ UNCHANGED <<shutdownFn, appending, hookSnap, hookIdx, steps, done,
                   sent, listening, active, dbCloses, procPc>>
    /\ UNCHANGED <<appVars, dbHangs, aggVars, bgVars, httpVars>>

(* Manager.Shutdown(ctx) by caller c, up to the go statement: under mu it   *)
(* returns nil when isShutdown is set; else it sets it and starts the      *)
(* teardown goroutine.  ctx may be done already.                           *)
Shutdown(c) ==
    /\ Running
    /\ callers[c].pc = "idle"
    /\ appending = <<>>
    /\ IF isShutdown
       THEN /\ callers' = [callers EXCEPT ![c] = [pc |-> "returned", ret |-> Nil]]
            /\ UNCHANGED <<isShutdown, owner, tdPc, ctxDone>>
       ELSE /\ isShutdown' = TRUE
            /\ owner' = c
            /\ tdPc' = "server"
            /\ callers' = [callers EXCEPT ![c].pc = "select"]
            /\ \E d \in BOOLEAN : ctxDone' = d
    /\ UNCHANGED <<shutdownFn, appending, hookSnap, hookIdx, steps, done,
                   sent, listening, active, dbCloses, procPc>>
    /\ UNCHANGED <<appVars, dbHangs, aggVars, bgVars, httpVars>>

(* Shutdown reaches its select: of the cases that can proceed (a value on  *)
(* done, ctx.Done()) one is taken, either when both can; when none can,    *)
(* the call parks and the first of the two to happen wakes it.             *)
ShutdownSelect(c) ==
    /\ Running
    /\ callers[c].pc = "select"
    /\ \/ /\ done # <<>>
          /\ callers' = [callers EXCEPT ![c] =
                            [pc |-> "returned", ret |-> done[1]]]
          /\ done' = <<>>
       \/ /\ ctxDone
          /\ callers' = [callers EXCEPT ![c] =
                            [pc |-> "returned", ret |-> Result("ctx", 0)]]
          /\ done' = done
       \/ /\ done = <<>>
          /\ ~ctxDone
          /\ callers' = [callers EXCEPT ![c].pc = "parked"]
          /\ done' = done
    /\ UNCHANGED <<shutdownFn, isShutdown, appending, owner, ctxDone, tdPc,
                   hookSnap, hookIdx, steps, sent, listening, active,
                   dbCloses, procPc>>
    /\ UNCHANGED <<appVars, dbHangs, aggVars, bgVars, httpVars>>

(* The owner's ctx becomes done; a Shutdown parked in its select returns   *)
(* ctx.Err().                                                              *)
CtxExpire ==
    /\ Running
    /\ owner # 0
    /\ ~ctxDone
    /\ ctxDone' = TRUE
    /\ callers' = IF callers[owner].pc = "parked"
                  THEN [callers EXCEPT ![owner] =
                          [pc |-> "returned", ret |-> Result("ctx", 0)]]
                  ELSE callers
    /\ UNCHANGED <<shutdownFn, isShutdown, appending, owner, tdPc, hookSnap,
                   hookIdx, steps, done, sent, listening, active, dbCloses,
                   procPc>>
    /\ UNCHANGED <<appVars, dbHangs, aggVars, bgVars, httpVars>>

(* Step 1 begins: server.Shutdown(ctx) closes the listeners. *)
TeardownStopServer ==
    /\ Running
    /\ tdPc = "server"
    /\ listening' = FALSE
    /\ steps' = Append(steps, Step("stop", 0, "running"))
    /\ tdPc' = "drain"
    /\ UNCHANGED <<shutdownFn, isShutdown, appending, owner, callers, ctxDone,
                   hookSnap, hookIdx, done, sent, active, dbCloses, procPc>>
    /\ UNCHANGED <<appVars, dbHangs, aggVars, bgVars, httpVars>>

(* server.Close in the place of server.Shutdown: it does not wait for the  *)
(* requests being served.                                                  *)
TeardownServerClosed ==
    /\ Running
    /\ tdPc = "drain"
    /\ steps' = [steps EXCEPT ![Len(steps)].res = "ok"]
    /\ tdPc' = "range"
    /\ UNCHANGED <<done, sent, callers>>
    /\ UNCHANGED <<shutdownFn, isShutdown, appending, owner, ctxDone, hookSnap,
                   hookIdx, listening, active, dbCloses, procPc>>
    /\ UNCHANGED <<appVars, dbHangs, aggVars, bgVars, httpVars>>

(* server.Shutdown(ctx) returns: with no request being served any more it  *)
(* returns nil, or the error of closing the listeners; with requests still *)
(* served and ctx done it returns ctx.Err().  An error is sent wrapped     *)
(* ("server" the listeners' error, "serverctx" ctx.Err()) and ends the     *)
(* teardown.                                                               *)
TeardownServerStopped ==
    /\ Running
    /\ tdPc = "drain"
    /\ \/ /\ active = 0
          /\ steps' = [steps EXCEPT ![Len(steps)].res = "ok"]
          /\ tdPc' = "range"
          /\ UNCHANGED <<done, sent, callers>>
       \/ /\ active = 0
          /\ steps' = [steps EXCEPT ![Len(steps)].res = "err"]
          /\ tdPc' = "end"
          /\ Deliver(Result("server", 0))
       \/ /\ active > 0
          /\ ctxDone
          /\ steps' = [steps EXCEPT ![Len(steps)].res = "err"]
          /\ tdPc' = "end"
          /\ Deliver(Result("serverctx", 0))
    /\ UNCHANGED <<shutdownFn, isShutdown, appending, owner, ctxDone, hookSnap,
                   hookIdx, listening, active, dbCloses, procPc>>
    /\ UNCHANGED <<appVars, dbHangs, aggVars, bgVars, httpVars>>

(* Step 2 begins: range m.shutdownFn reads the slice once, without mu.     *)
(* While an append is under way the read races with it: it sees the slice  *)
(* before or after, or a torn header, and then the process crashes.        *)
TeardownRange ==
    /\ Running
    /\ tdPc = "range"
    /\ \/ /\ hookSnap' = shutdownFn
          /\ hookIdx' = 1
          /\ tdPc' = "hooks"
          /\ procPc' = procPc
       \/ /\ appending # <<>>
          /\ hookSnap' = Append(shutdownFn, appending[1])
          /\ hookIdx' = 1
          /\ tdPc' = "hooks"
          /\ procPc' = procPc
       \/ /\ appending # <<>>
          /\ procPc' = "crashed"
          /\ UNCHANGED <<hookSnap, hookIdx, tdPc>>
    /\ UNCHANGED <<shutdownFn, isShutdown, appending, owner, callers, ctxDone,
                   steps, done, sent, listening, active, dbCloses>>
    /\ UNCHANGED <<appVars, dbHangs, aggVars, bgVars, httpVars>>

(* The next hook of the slice is called. *)
TeardownHookStart ==
    /\ Running
    /\ tdPc = "hooks"
    /\ hookIdx <= Len(hookSnap)
    /\ steps' = Append(steps, Step("hook", hookSnap[hookIdx].id, "running"))
    /\ tdPc' = "inhook"
    /\ UNCHANGED <<shutdownFn, isShutdown, appending, owner, callers, ctxDone,
                   hookSnap, hookIdx, done, sent, listening, active, dbCloses,
                   procPc>>
    /\ UNCHANGED <<appVars, dbHangs, aggVars, bgVars, httpVars>>

(* A hooks loop that goes on to the next hook after an error. *)
TeardownHookReturnContinue ==
    /\ Running
    /\ tdPc = "inhook"
    /\ \E ok \in BOOLEAN :
          /\ steps' = [steps EXCEPT ![Len(steps)].res = IF ok THEN "ok" ELSE "err"]
          /\ hookIdx' = hookIdx + 1
          /\ tdPc' = "hooks"
          /\ UNCHANGED <<done, sent, callers>>
    /\ UNCHANGED <<shutdownFn, isShutdown, appending, owner, ctxDone, hookSnap,
                   listening, active, dbCloses, procPc>>
    /\ UNCHANGED <<appVars, dbHangs, aggVars, bgVars, httpVars>>

(* The hook returns (it need not): nil, and the loop goes on; or an error, *)
(* which is sent with the hook's number i+1 and ends the teardown.         *)
TeardownHookReturn ==
    /\ Running
    /\ tdPc = "inhook"
    /\ \/ /\ steps' = [steps EXCEPT ![Len(steps)].res = "ok"]
          /\ hookIdx' = hookIdx + 1
          /\ tdPc' = "hooks"
          /\ UNCHANGED <<done, sent, callers>>
       \/ /\ steps' = [steps EXCEPT ![Len(steps)].res = "err"]
          /\ hookIdx' = hookIdx
          /\ tdPc' = "end"
          /\ Deliver(Result("hook", hookIdx))
    /\ UNCHANGED <<shutdownFn, isShutdown, appending, owner, ctxDone, hookSnap,
                   listening, active, dbCloses, procPc>>
    /\ UNCHANGED <<appVars, dbHangs, aggVars, bgVars, httpVars>>

(* Step 3: after the last hook m.db.Close() is called; its error ends the  *)
(* teardown.                                                               *)
TeardownClose ==
    /\ Running
    /\ tdPc = "hooks"
    /\ hookIdx > Len(hookSnap)
    /\ dbCloses' = Append(dbCloses, "manager")
    /\ \/ /\ steps' = Append(steps, Step("close", 0, "ok"))
          /\ tdPc' = "cleanup"
          /\ UNCHANGED <<done, sent, callers>>
       \/ /\ steps' = Append(steps, Step("close", 0, "err"))
          /\ tdPc' = "end"
          /\ Deliver(Result("close", 0))
    /\ UNCHANGED <<shutdownFn, isShutdown, appending, owner, ctxDone, hookSnap,
                   hookIdx, listening, active, procPc>>
    /\ UNCHANGED <<appVars, dbHangs, aggVars, bgVars, httpVars>>

(* Step 4: the 100 ms sleep is over, nil is sent. *)
TeardownCleanup ==
    /\ Running
    /\ tdPc = "cleanup"
    /\ tdPc' = "end"
    /\ Deliver(Nil)
    /\ UNCHANGED <<shutdownFn, isShutdown, appending, owner, ctxDone, hookSnap,
                   hookIdx, steps, listening, active, dbCloses, procPc>>
    /\ UNCHANGED <<appVars, dbHangs, aggVars, bgVars, httpVars>>

(* The server accepts a request. *)
RequestAccept ==
    /\ Running
    /\ listening
    /\ active < MaxActive
    /\ active' = active + 1
    /\ UNCHANGED <<shutdownFn, isShutdown, appending, owner, callers, ctxDone,
                   tdPc, hookSnap, hookIdx, steps, done, sent, listening,
                   dbCloses, procPc>>
    /\ UNCHANGED <<appVars, dbHangs, aggVars, bgVars, httpVars>>

(* A request has been served. *)
RequestEnd ==
    /\ Running
    /\ active > 0
    /\ active' = active - 1
    /\ UNCHANGED <<shutdownFn, isShutdown, appending, owner, callers, ctxDone,
                   tdPc, hookSnap, hookIdx, steps, done, sent, listening,
                   dbCloses, procPc>>
    /\ UNCHANGED <<appVars, dbHangs, aggVars, bgVars, httpVars>>

(* main after its Shutdown call: an error is os.Exit(1), which runs no     *)
(* deferred call; nil lets main return, and its defer db.Close() runs.     *)
MainReturn ==
    /\ Running
    /\ callers[Main].pc = "returned"
    /\ procPc' = "exited"
    /\ dbCloses' = IF callers[Main].ret = Nil THEN Append(dbCloses, "main")
                   ELSE dbCloses
    /\ UNCHANGED <<shutdownFn, isShutdown, appending, owner, callers, ctxDone,
                   tdPc, hookSnap, hookIdx, steps, done, sent, listening,
                   active>>
    /\ UNCHANGED <<appVars, dbHangs, aggVars, bgVars, httpVars>>

----------------------------------------------------------------------------
(* Checker.backgroundHealthCheck. *)

(* TickSeconds pass, the ticker of backgroundHealthCheck included. *)
TickBackground ==
    /\ cb' = [cb EXCEPT !.expiry = Later(@)]
    /\ wakeAt' = Later(wakeAt)
    /\ calls' = BagOfAll(Aged, calls)
    /\ bgAt' = Later(bgAt)
    /\ UNCHANGED <<dbUp, env, probes, startup, ready, initPc, last>>
    /\ UNCHANGED <<dbHangs, aggVars, mgrVars, bgPc, httpVars>>

(* What the loop's HealthCheck returns to it. *)
BackgroundResponse(err, e) ==
    [HealthResponse(err, e) EXCEPT !.method = "backgroundHealthCheck"]

(* The loop takes a tick of its ticker (the next comes an interval after   *)
(* this one was due) and calls HealthCheck, up to the point where the Ping *)
(* is inside its operation, or to its return when the breaker refuses it.  *)
BackgroundTick ==
    /\ Running
    /\ bgPc = "wait"
    /\ ~Before(Now, bgAt)
    /\ CanRLock
    /\ \E next \in {Now + k * TickSeconds : k \in 1..(BackgroundInterval \div TickSeconds)} :
          /\ bgAt = Now => next = Now + BackgroundInterval
          /\ bgAt' = next
    /\ LET r == beforeRequest(cb, Now)
       IN  /\ WithinBounds(r.cb)
           /\ cb' = r.cb
           /\ probes' = probesAfter(cb, r.cb, IF r.err = "nil" THEN 1 ELSE 0)
           /\ IF r.err = "nil"
              THEN /\ calls' = calls (+)
                          SetToBag({InCheck("backgroundHealthCheck", r.generation,
                                           Now + CheckTimeout)})
                   /\ last' = last
                   /\ bgPc' = "check"
              ELSE /\ calls' = calls
                   /\ last' = BackgroundResponse(r.err, env)
                   /\ bgPc' = "wait"
    /\ UNCHANGED <<dbUp, env, startup, ready, initPc, wakeAt>>
    /\ UNCHANGED <<dbHangs, aggVars, mgrVars, httpVars>>

(* The Ping of the loop's HealthCheck returns; the loop logs and goes back *)
(* to its select.                                                          *)
BackgroundEnd(c) ==
    /\ Running
    /\ c \in InFlight
    /\ c.method = "backgroundHealthCheck"
    /\ PingReturns(c)
    /\ LET c2 == afterRequest(cb, c.generation, PingErr(c) = "nil", Now)
       IN  /\ WithinBounds(c2)
           /\ cb' = c2
           /\ probes' = probesAfter(cb, c2, 0)
    /\ calls' = calls (-) SetToBag({c})
    /\ last' = BackgroundResponse(PingErr(c), env)
    /\ bgPc' = "wait"
    /\ UNCHANGED <<dbUp, env, startup, ready, initPc, wakeAt>>
    /\ UNCHANGED <<dbHangs, aggVars, mgrVars, bgAt, httpVars>>

----------------------------------------------------------------------------
(* Package handlers: what each handler answers.  A handler is followed     *)
(* from its request to its response in one step.                           *)

StatusOK == 200
StatusCreated == 201
StatusBadRequest == 400
StatusNotFound == 404
StatusInternalServerError == 500
StatusServiceUnavailable == 503

(* Handler.getEnabledFeatures: a fixed list, FEATURE_FLAGS is not read. *)
HandlerEnabledFeatures ==
    << <<"graceful_degradation">>, <<"circuit_breaker">>, <<"metrics">> >>

(* Handler.isGracefulDegradationEnabled. *)
HandlerDegradationEnabled ==
    \E k \in DOMAIN HandlerEnabledFeatures :
        HandlerEnabledFeatures[k] = <<"graceful_degradation">>

(* DB's Execute around an operation that returns at once with success ok:  *)
(* beforeRequest, the operation if it is let through, afterRequest.  The   *)
(* breaker and probes afterwards, the error returned, and whether the      *)
(* model's bounds hold all the way.                                        *)
ExecuteNow(ok) ==
    LET r == beforeRequest(cb, Now)
        c2 == IF r.err = "nil"
              THEN afterRequest(r.cb, r.generation, ok, Now) ELSE r.cb
        p1 == probesAfter(cb, r.cb, IF r.err = "nil" THEN 1 ELSE 0)
    IN  [cb |-> c2,
         probes |-> IF c2.state # StateHalfOpen THEN 0
                    ELSE IF r.cb.state = StateHalfOpen THEN p1 ELSE 0,
         err |-> IF r.err # "nil" THEN r.err
                 ELSE IF ok THEN "nil" ELSE "opError",
         within |-> WithinBounds(r.cb) /\ WithinBounds(c2)]

(* GetUsers that answers an error whenever db.GetUsers fails. *)
GetUsersResponseNoFallback(err) ==
    IF err # "nil"
    THEN Response("GetUsers", err, StatusInternalServerError, "database_error", "error")
    ELSE Response("GetUsers", err, StatusOK, "", "users")

(* Handler.GetUsers after db.GetUsers returned err. *)
GetUsersResponse(err) ==
    IF err # "nil"
    THEN IF HandlerDegradationEnabled
         THEN Response("GetUsers", err, StatusOK, "", "fallback")
         ELSE Response("GetUsers", err, StatusInternalServerError,
                       "database_error", "error")
    ELSE Response("GetUsers", err, StatusOK, "", "users")

(* Handler.GetUser after db.GetUser(id) returned err; getFallbackUser      *)
(* knows user 1 only.                                                      *)
GetUserResponse(id, err) ==
    IF err # "nil"
    THEN IF HandlerDegradationEnabled /\ id = 1
         THEN Response("GetUser", err, StatusOK, "", "fallback")
         ELSE Response("GetUser", err, StatusNotFound, "user_not_found", "error")
    ELSE Response("GetUser", err, StatusOK, "", "user")

(* Handler.CreateUser after db.CreateUser returned err. *)
CreateUserResponse(err) ==
    IF err # "nil"
    THEN IF HandlerDegradationEnabled
         THEN Response("CreateUser", err, StatusServiceUnavailable,
                       "degraded_mode", "error")
         ELSE Response("CreateUser", err, StatusInternalServerError,
                       "creation_failed", "error")
    ELSE Response("CreateUser", err, StatusCreated, "", "user")

(* A /health handler that takes Degraded for a failure too. *)
HealthCheckResponseStrict(r) ==
    Response("HealthCheck", r.err,
             IF r.status # StatusHealthy THEN StatusServiceUnavailable
             ELSE StatusOK,
             "", r.status)

(* Handler.HealthCheck after healthChecker.HealthCheck returned r. *)
HealthCheckResponse(r) ==
    Response("HealthCheck", r.err,
             IF r.status = StatusUnhealthy THEN StatusServiceUnavailable
             ELSE StatusOK,
             "", r.status)

(* Handler.ReadinessCheck after healthChecker.ReadinessCheck returned r. *)
ReadinessCheckResponse(r) ==
    IF r.ret THEN Response("ReadinessCheck", r.err, StatusOK, "", "OK")
    ELSE Response("ReadinessCheck", r.err, StatusServiceUnavailable, "", "Not Ready")

(* Handler.StartupCheck after healthChecker.StartupCheck returned started. *)
StartupCheckResponse(started) ==
    IF started THEN Response("StartupCheck", "none", StatusOK, "", "Started")
    ELSE Response("StartupCheck", "none", StatusServiceUnavailable, "", "Starting")

(* The ids of the requests to /api/users/{id}: 0 stands for one that       *)
(* strconv.Atoi refuses.                                                   *)
UserIds == {0, 1, 2}

(* GET /health. *)
HandlerHealthCheck ==
    /\ CanRLock
    /\ LET g == ExecuteNow(dbUp /\ ~dbHangs)
       IN  /\ g.within
           /\ cb' = g.cb
           /\ probes' = g.probes
           /\ last' = HealthResponse(g.err, env)
           /\ resp' = HealthCheckResponse(HealthResponse(g.err, env))
    /\ UNCHANGED <<dbUp, env, startup, ready, initPc, wakeAt, calls>>
    /\ UNCHANGED <<dbHangs, aggVars, mgrVars, bgVars>>

(* GET /ready. *)
HandlerReadinessCheck ==
    /\ CanRLock
    /\ IF ~startup
       THEN /\ last' = [NoCall EXCEPT !.method = "ReadinessCheck"]
            /\ resp' = ReadinessCheckResponse(
                           [NoCall EXCEPT !.method = "ReadinessCheck"])
            /\ UNCHANGED <<cb, probes, ready>>
       ELSE LET g == ExecuteNow(dbUp /\ ~dbHangs)
            IN  /\ g.within
                /\ cb' = g.cb
                /\ probes' = g.probes
                /\ ready' = IF checkDatabase(g.err) = StatusUnhealthy
                            THEN ready ELSE TRUE
                /\ last' = ReadinessResult(g.err, env)
                /\ resp' = ReadinessCheckResponse(ReadinessResult(g.err, env))
    /\ UNCHANGED <<dbUp, env, startup, initPc, wakeAt, calls>>
    /\ UNCHANGED <<dbHangs, aggVars, mgrVars, bgVars>>

(* GET /startup. *)
HandlerStartupCheck ==
    /\ CanRLock
    /\ last' = [NoCall EXCEPT !.method = "StartupCheck", !.ret = startup]
    /\ resp' = StartupCheckResponse(startup)
    /\ UNCHANGED <<dbUp, env, cb, probes, startup, ready, initPc, wakeAt, calls>>
    /\ UNCHANGED <<dbHangs, aggVars, mgrVars, bgVars>>

(* GET /api/users. *)
HandlerGetUsers ==
    /\ LET g == ExecuteNow(dbUp)
       IN  /\ g.within
           /\ cb' = g.cb
           /\ probes' = g.probes
           /\ last' = [NoCall EXCEPT !.method = "GetUsers", !.err = g.err]
           /\ resp' = GetUsersResponse(g.err)
    /\ UNCHANGED <<dbUp, env, startup, ready, initPc, wakeAt, calls>>
    /\ UNCHANGED <<dbHangs, aggVars, mgrVars, bgVars>>

(* GET /api/users/{id}: the row may be missing, and Scan then fails. *)
HandlerGetUser(id) ==
    /\ IF id = 0
       THEN /\ resp' = Response("GetUser", "none", StatusBadRequest,
                                "invalid_id", "error")
            /\ UNCHANGED <<cb, probes, last>>
       ELSE \E found \in BOOLEAN :
               LET g == ExecuteNow(dbUp /\ found)
               IN  /\ g.within
                   /\ cb' = g.cb
                   /\ probes' = g.probes
                   /\ last' = [NoCall EXCEPT !.method = "GetUser", !.err = g.err]
                   /\ resp' = GetUserResponse(id, g.err)
    /\ UNCHANGED <<dbUp, env, startup, ready, initPc, wakeAt, calls>>
    /\ UNCHANGED <<dbHangs, aggVars, mgrVars, bgVars>>

(* POST /api/users with a body that is no JSON ("invalid_json"), lacks a   *)
(* field ("missing_fields") or is well formed ("ok"); the INSERT may fail  *)
(* on a database that answers (the email is taken).                        *)
HandlerCreateUser(body) ==
    /\ IF body # "ok"
       THEN /\ resp' = Response("CreateUser", "none", StatusBadRequest,
                                body, "error")
            /\ UNCHANGED <<cb, probes, last>>
       ELSE \E inserted \in BOOLEAN :
               LET g == ExecuteNow(dbUp /\ inserted)
               IN  /\ g.within
                   /\ cb' = g.cb
                   /\ probes' = g.probes
                   /\ last' = [NoCall EXCEPT !.method = "CreateUser", !.err = g.err]
                   /\ resp' = CreateUserResponse(g.err)
    /\ UNCHANGED <<dbUp, env, startup, ready, initPc, wakeAt, calls>>
    /\ UNCHANGED <<dbHangs, aggVars, mgrVars, bgVars>>

(* GET /api/status: HealthCheck, then the breaker's counts and state. *)
HandlerGetSystemStatus ==
    /\ CanRLock
    /\ LET g == ExecuteNow(dbUp /\ ~dbHangs)
       IN  /\ g.within
           /\ WithinBounds(currentState(g.cb, Now))
           /\ cb' = currentState(g.cb, Now)
           /\ probes' = IF currentState(g.cb, Now).state = StateHalfOpen
                           /\ g.cb.state = StateHalfOpen
                        THEN g.probes ELSE 0
           /\ last' = HealthResponse(g.err, env)
           /\ resp' = Response("GetSystemStatus", g.err, StatusOK, "", "status")
    /\ UNCHANGED <<dbUp, env, startup, ready, initPc, wakeAt, calls>>
    /\ UNCHANGED <<dbHangs, aggVars, mgrVars, bgVars>>

(* The handlers under requests that come one after the other. *)
InitHandlers == Init /\ env \in {<<>>, <<"circuit_breaker">>}

NextHandlers ==
    \/ Tick
    \/ DbToggle
    \/ StartupWake
    \/ StartupFlip
    \/ HandlerHealthCheck
    \/ HandlerReadinessCheck
    \/ HandlerStartupCheck
    \/ HandlerGetUsers
    \/ \E id \in UserIds : HandlerGetUser(id)
    \/ \E body \in {"ok", "invalid_json", "missing_fields"} : HandlerCreateUser(body)
    \/ HandlerGetSystemStatus

SpecHandlers == InitHandlers /\ [][NextHandlers]_vars

(* FEATURE_FLAGS of k8s/configmap.yaml. *)
ShippedFeatureFlags ==
    <<"graceful_degradation", ",", "circuit_breaker", ",", "metrics">>

(* The handlers in the deployment the manifests describe. *)
InitDeployed ==
    /\ InitAppWith({ShippedFeatureFlags})
    /\ checks = NoChecks
    /\ overall = "none"
    /\ InitManager
    /\ InitBackground
    /\ InitHTTP

NextDeployed == NextHandlers

SpecDeployed == InitDeployed /\ [][NextDeployed]_vars

(* The Manager under any callers, the server under requests, main. *)
NextShutdown ==
    \/ AddShutdownHookBegin
    \/ AddShutdownHookEnd
    \/ \E c \in Callers : Shutdown(c)
    \/ \E c \in Callers : ShutdownSelect(c)
    \/ CtxExpire
    \/ TeardownStopServer
    \/ TeardownServerStopped
    \/ TeardownRange
    \/ TeardownHookStart
    \/ TeardownHookReturn
    \/ TeardownClose
    \/ TeardownCleanup
    \/ RequestAccept
    \/ RequestEnd
    \/ MainReturn

InitShutdown == Init /\ env = <<>>

SpecShutdown == InitShutdown /\ [][NextShutdown]_vars

Next ==
    \/ Tick
    \/ DbToggle
    \/ \E m \in Methods : CallBegin(m)
    \/ \E c \in InFlight : CallEnd(c)
    \/ GetState
    \/ StartupWake
    \/ StartupFlip
    \/ StartupCheck
    \/ ReadinessBegin
    \/ \E c \in InFlight : ReadinessEnd(c)
    \/ HealthCheckBegin
    \/ \E c \in InFlight : HealthCheckEnd(c)
    \/ DbHang
    \/ NextShutdown

Spec == Init /\ [][Next]_vars

(* The breaker under calls of the four DB methods alone. *)
InitGate == Init /\ env = <<>>

NextGate ==
    \/ Tick
    \/ DbToggle
    \/ \E m \in Methods : CallBegin(m)
    \/ \E c \in InFlight : CallEnd(c)
    \/ GetState

SpecGate == InitGate /\ [][NextGate]_vars

(* The Checker's probes; HealthCheck is the traffic through the breaker    *)
(* that does not wait for startup.                                         *)
NextChecker ==
    \/ Tick
    \/ DbToggle
    \/ HealthCheckBegin
    \/ \E c \in InFlight : HealthCheckEnd(c)
    \/ StartupWake
    \/ StartupFlip
    \/ StartupCheck
    \/ ReadinessBegin
    \/ \E c \in InFlight : ReadinessEnd(c)

SpecChecker == Init /\ [][NextChecker]_vars

InitProbe == Init /\ env = <<>>

(* One call of the Checker at a time, against a database that may hang;   *)
(* a call is let in while the generations left cover its return.           *)
NextProbe ==
    \/ Tick
    \/ DbToggle
    \/ DbHang
    \/ StartupWake
    \/ StartupFlip
    \/ (Readers = {} /\ HealthCheckBegin /\ cb'.generation < MaxGeneration)
    \/ \E c \in InFlight : HealthCheckEnd(c)
    \/ (Readers = {} /\ ReadinessBegin /\ cb'.generation < MaxGeneration)
    \/ \E c \in InFlight : ReadinessEnd(c)

(* Time passes; a Ping that can come back does; the start-up goroutine    *)
(* gets the lock once the readers have left.                               *)
SpecProbe ==
    /\ InitProbe
    /\ [][NextProbe]_vars
    /\ WF_vars(Tick)
    /\ WF_vars(StartupFlip)
    /\ WF_vars(\E c \in InFlight : HealthCheckEnd(c))
    /\ WF_vars(\E c \in InFlight : ReadinessEnd(c))

(* The Checker with its background loop, under /health requests. *)
InitSampling == Init /\ env = <<>>

NextSampling ==
    \/ TickBackground
    \/ StartupWake
    \/ StartupFlip
    \/ HealthCheckBegin
    \/ \E c \in InFlight : HealthCheckEnd(c)
    \/ BackgroundTick
    \/ \E c \in InFlight : BackgroundEnd(c)

SpecSampling == InitSampling /\ [][NextSampling]_vars

(* main's Shutdown and its teardown without hooks. *)
NextMainShutdown ==
    \/ Shutdown(Main)
    \/ ShutdownSelect(Main)
    \/ CtxExpire
    \/ TeardownStopServer
    \/ TeardownServerStopped
    \/ TeardownRange
    \/ TeardownClose
    \/ TeardownCleanup
    \/ MainReturn

(* main's Shutdown with the readiness probes that the server accepts. *)
InitDrain == Init /\ env = <<>>

NextDrain ==
    \/ (Running /\ Tick)
    \/ StartupWake
    \/ StartupFlip
    \/ (Running /\ listening /\ ReadinessBegin)
    \/ \E c \in InFlight : (Running /\ ReadinessEnd(c))
    \/ NextMainShutdown

SpecDrain == InitDrain /\ [][NextDrain]_vars

(* main's Shutdown with the Checker's background loop. *)
InitTeardown == Init /\ env = <<>>

NextTeardown ==
    \/ (Running /\ TickBackground)
    \/ StartupWake
    \/ StartupFlip
    \/ BackgroundTick
    \/ \E c \in InFlight : BackgroundEnd(c)
    \/ NextMainShutdown

SpecTeardown == InitTeardown /\ [][NextTeardown]_vars

(* A step that leaves the breaker half-open only in a generation that the *)
(* model follows to its end.                                               *)
HalfOpenFollowed ==
    cb'.state = StateHalfOpen => cb'.generation <= MaxGeneration - 1

(* The breaker under the DB methods, every operation entered returning. *)
NextProbing ==
    \/ Tick
    \/ DbToggle
    \/ \E m \in Methods : (CallBegin(m) /\ HalfOpenFollowed)
    \/ \E c \in InFlight : (CallEnd(c) /\ HalfOpenFollowed)
    \/ (GetState /\ HalfOpenFollowed)

SpecProbing ==
    /\ InitGate
    /\ [][NextProbing]_vars
    /\ WF_vars(\E c \in InFlight : (CallEnd(c) /\ HalfOpenFollowed))

(* The readiness probe and the readers of the ready flag. *)
NextReady ==
    \/ Tick
    \/ DbToggle
    \/ StartupWake
    \/ StartupFlip
    \/ ReadinessBegin
    \/ \E c \in InFlight : ReadinessEnd(c)
    \/ IsReady

SpecReady == Init /\ [][NextReady]_vars

(* A step that leaves the breaker where the generations the model follows *)
(* cover its way back to Closed: a half-open period and a closed one after *)
(* an open one.                                                            *)
Recoverable ==
    /\ cb'.state = StateOpen => cb'.generation <= MaxGeneration - 2
    /\ cb'.state = StateHalfOpen => cb'.generation <= MaxGeneration - 1

InitRecovery == Init /\ env = <<>>

(* Requests to GET /api/users and the probes, overlapping, against a       *)
(* database that goes down in the breaker's first generation and comes     *)
(* back for good; a Ping returns before its context is over.               *)
NextRecovery ==
    \/ (Readers = {} /\ Tick)
    \/ (dbUp /\ cb.generation = 1 /\ DbToggle)
    \/ (~dbUp /\ DbToggle)
    \/ StartupWake
    \/ StartupFlip
    \/ (CallBegin("GetUsers") /\ Recoverable)
    \/ \E c \in InFlight : (CallEnd(c) /\ Recoverable)
    \/ (HealthCheckBegin /\ Recoverable)
    \/ \E c \in InFlight : (HealthCheckEnd(c) /\ Recoverable)
    \/ (ReadinessBegin /\ Recoverable)
    \/ \E c \in InFlight : (ReadinessEnd(c) /\ Recoverable)

(* Time passes, the start-up goroutine gets its lock, calls keep arriving  *)
(* (the background ticker's HealthCheck, the kubelet's probes, requests)   *)
(* and every operation entered returns.                                    *)
SpecRecovery ==
    /\ InitRecovery
    /\ [][NextRecovery]_vars
    /\ WF_vars(Readers = {} /\ Tick)
    /\ WF_vars(~dbUp /\ DbToggle)
    /\ WF_vars(StartupWake)
    /\ WF_vars(StartupFlip)
    /\ WF_vars(CallBegin("GetUsers") /\ Recoverable)
    /\ WF_vars(\E c \in InFlight : (CallEnd(c) /\ Recoverable))
    /\ WF_vars(HealthCheckBegin /\ Recoverable)
    /\ WF_vars(\E c \in InFlight : (HealthCheckEnd(c) /\ Recoverable))
    /\ WF_vars(ReadinessBegin /\ Recoverable)
    /\ WF_vars(\E c \in InFlight : (ReadinessEnd(c) /\ Recoverable))

(* determineOverallStatus on its own, over every map of checks. *)
InitAggregate ==
    /\ InitApp
    /\ checks \in [CheckNames -> Statuses]
    /\ overall = "none"
    /\ InitManager
    /\ InitBackground
    /\ InitHTTP

Aggregate ==
    /\ overall = "none"
    /\ overall' = determineOverallStatus({checks[n] : n \in CheckNames}, env)
    /\ UNCHANGED <<appVars, dbHangs, checks, mgrVars, bgVars, httpVars>>

NextAggregate == Aggregate

SpecAggregate == InitAggregate /\ [][NextAggregate]_vars

----------------------------------------------------------------------------
(* Claims about the breaker. *)

Rejected(m, e) == [NoCall EXCEPT !.method = m, !.err = e]

OpenEarly == cb.state = StateOpen /\ Before(Now, cb.expiry)

(* C1: while the breaker is open and less than the open timeout has       *)
(* passed since it opened, every call of a DB method returns ErrOpenState  *)
(* and no operation is entered.                                            *)
C1_FailFast ==
    [][OpenEarly =>
          /\ BagCardinality(calls') <= BagCardinality(calls)
          /\ \A m \in Methods :
                CallBegin(m) => /\ last' = Rejected(m, "ErrOpenState")
                                /\ calls' = calls
                                /\ cb' = cb]_vars

C1_Witness ==
    /\ OpenEarly
    /\ cb.expiry < Timeout
    /\ last.err = "ErrOpenState"

(* The call c ends in the generation that let it through, the breaker      *)
(* closed and its interval not over: the call is counted.                  *)
CountedInClosed(c) ==
    /\ cb.state = StateClosed
    /\ c.generation = cb.generation
    /\ ~Before(cb.expiry, Now)

(* The trip predicate as the claims state it. *)
TripPredicate(counts) ==
    counts.Requests >= 2 /\ 2 * counts.TotalFailures >= counts.Requests

C3_TripAfterAnyCall ==
    [][\A c \in InFlight :
          (CallEnd(c) /\ CountedInClosed(c)) =>
             (cb'.state = StateOpen <=>
                 TripPredicate(IF dbUp THEN countSuccess(cb.counts)
                                       ELSE countFailure(cb.counts)))]_vars

(* C3 as amended: after a counted failing call in Closed the breaker is    *)
(* open exactly when the predicate holds of the updated counts; a          *)
(* successful call leaves it closed whatever the counts.                   *)
C3_TripAfterFailure ==
    [][\A c \in InFlight :
          (CallEnd(c) /\ CountedInClosed(c)) =>
             (cb'.state = StateOpen <=>
                 (~dbUp /\ TripPredicate(countFailure(cb.counts))))]_vars

C3_Witness ==
    /\ cb.state = StateClosed
    /\ TripPredicate(cb.counts)
    /\ cb.counts.ConsecutiveSuccesses = 1
    /\ last.err = "nil"

(* The call c ends in the half-open generation that let it through. *)
CountedInHalfOpen(c) ==
    /\ cb.state = StateHalfOpen
    /\ c.generation = cb.generation

Admitted(m, g) ==
    /\ CopiesIn(InOp(m, g), calls') = CopiesIn(InOp(m, g), calls) + 1
    /\ BagCardinality(calls') = BagCardinality(calls) + 1

(* C4: the first call of a DB method made once the open timeout is over    *)
(* finds the breaker half-open after beforeRequest (moved there by this    *)
(* call, or by a DB.GetState before it) and enters its operation.          *)
C4_FirstCallAfterTimeout ==
    [][\A m \in Methods :
          CallBegin(m) =>
             /\ (cb.state = StateOpen /\ Before(cb.expiry, Now)) =>
                   /\ cb'.state = StateHalfOpen
                   /\ cb'.generation = cb.generation + 1
                   /\ cb'.counts.Requests = 1
                   /\ Admitted(m, cb'.generation)
             /\ (cb.state = StateHalfOpen /\ cb.counts.Requests = 0) =>
                   /\ cb'.state = StateHalfOpen
                   /\ cb'.generation = cb.generation
                   /\ Admitted(m, cb.generation)]_vars

C4_Witness ==
    /\ cb.state = StateHalfOpen
    /\ cb.counts.Requests = 1
    /\ probes = 1
    /\ \E c \in InFlight : c.generation = cb.generation

(* C5: a probe that fails in HalfOpen reopens the breaker and restarts the *)
(* open timeout: the breaker is open, in a new generation with zero        *)
(* counts, and expires 10 s from now, so that calls are refused until      *)
(* then.                                                                   *)
C5_ProbeFailureReopens ==
    [][\A c \in InFlight :
          (CallEnd(c) /\ CountedInHalfOpen(c) /\ ~dbUp) =>
             /\ cb'.state = StateOpen
             /\ cb'.generation = cb.generation + 1
             /\ cb'.counts = ZeroCounts
             /\ cb'.expiry = Now + 10
             /\ beforeRequest(cb', Now).err = "ErrOpenState"]_vars

C5_Witness ==
    /\ cb.state = StateOpen
    /\ cb.generation = 4
    /\ cb.expiry = Timeout
    /\ last.err = "opError"

(* C6: a probe that succeeds in HalfOpen closes the breaker, with zero     *)
(* counts, exactly when it is the third success in a row; before that the  *)
(* breaker stays half-open.                                                *)
C6_CloseAfterThreeSuccesses ==
    /\ [](cb.state = StateHalfOpen => cb.counts.ConsecutiveSuccesses < 3)
    /\ [][\A c \in InFlight :
             (CallEnd(c) /\ CountedInHalfOpen(c) /\ dbUp) =>
                IF cb.counts.ConsecutiveSuccesses + 1 = 3
                THEN /\ cb'.state = StateClosed
                     /\ cb'.generation = cb.generation + 1
                     /\ cb'.counts = ZeroCounts
                ELSE /\ cb'.state = StateHalfOpen
                     /\ cb'.generation = cb.generation
                     /\ cb'.counts.ConsecutiveSuccesses =
                           cb.counts.ConsecutiveSuccesses + 1]_vars

C6_Witness ==
    /\ cb.state = StateClosed
    /\ cb.generation = 4
    /\ cb.counts = ZeroCounts
    /\ last.err = "nil"

(* C7: in one half-open period at most three operations are entered, and   *)
(* a call that arrives after the third returns ErrTooManyRequests without  *)
(* entering its operation.                                                 *)
C7_ProbeLimit ==
    /\ [](probes <= 3)
    /\ [][\A m \in Methods :
             (CallBegin(m) /\ cb.state = StateHalfOpen /\ probes = 3) =>
                /\ last' = Rejected(m, "ErrTooManyRequests")
                /\ calls' = calls
                /\ probes' = 3]_vars

C7_Witness ==
    /\ cb.state = StateHalfOpen
    /\ probes = 3
    /\ last.err = "ErrTooManyRequests"

----------------------------------------------------------------------------
(* Claims about the Checker. *)

(* Degradation as the deployment states it: FEATURE_FLAGS is unset (the    *)
(* default list names graceful_degradation) or names it.                   *)
DegradationConfigured ==
    env = <<>> \/ \E k \in DOMAIN env : env[k] = "graceful_degradation"

(* C8: a ReadinessCheck that ran its database check (startup was complete) *)
(* returns true when the check is healthy, and when it is unhealthy        *)
(* returns true with degradation enabled and false with it disabled.       *)
C8_ReadinessPolicy ==
    (last.method = "ReadinessCheck" /\ last.db # "none") =>
        /\ startup
        /\ last.db \in {StatusHealthy, StatusUnhealthy}
        /\ last.ret = (last.db = StatusHealthy \/ DegradationConfigured)

C8_Witness ==
    /\ last.method = "ReadinessCheck"
    /\ last.db = StatusUnhealthy
    /\ env = <<"circuit_breaker", ",", " ", "graceful_degradation">>
    /\ last.ret = TRUE

(* C9: while startup is incomplete a ReadinessCheck returns false and      *)
(* makes no call on the breaker: breaker, calls in flight and ready are    *)
(* as before.                                                              *)
C9_NotReadyBeforeStartup ==
    [][(ReadinessBegin /\ ~startup) =>
          /\ last' = [NoCall EXCEPT !.method = "ReadinessCheck"]
          /\ last'.ret = FALSE
          /\ cb' = cb
          /\ calls' = calls
          /\ probes' = probes
          /\ ready' = ready]_vars

C9_Witness ==
    /\ ~startup
    /\ ~dbUp
    /\ DegradationConfigured
    /\ last = [NoCall EXCEPT !.method = "ReadinessCheck"]

(* C10: startup is false until the start-up delay is over and never goes   *)
(* back to false, and StartupCheck returns it: false before the delay is   *)
(* over, true in every call after one that returned true.                  *)
C10_StartupOneWay ==
    /\ [](startup => ~Before(Now, wakeAt))
    /\ [][startup => startup']_vars
    /\ [][StartupCheck =>
             /\ last'.method = "StartupCheck"
             /\ last'.ret = startup
             /\ Before(Now, wakeAt) => last'.ret = FALSE
             /\ (last.method = "StartupCheck" /\ last.ret) => last'.ret = TRUE]_vars

C10_Witness ==
    /\ startup
    /\ last.method = "StartupCheck"
    /\ last.ret = TRUE
    /\ Readers # {}

(* C11: the overall status is unhealthy iff some check is unhealthy and    *)
(* degradation is disabled; otherwise degraded iff some check is unhealthy *)
(* or degraded; otherwise healthy.                                         *)
C11_HealthAggregation ==
    overall # "none" =>
        LET someUnhealthy == \E n \in CheckNames : checks[n] = StatusUnhealthy
            someDegraded == \E n \in CheckNames : checks[n] = StatusDegraded
        IN  /\ overall = StatusUnhealthy <=>
                  (someUnhealthy /\ ~DegradationConfigured)
            /\ overall = StatusDegraded <=>
                  /\ ~(someUnhealthy /\ ~DegradationConfigured)
                  /\ (someUnhealthy \/ someDegraded)
            /\ overall = StatusHealthy <=> ~(someUnhealthy \/ someDegraded)

C11_Witness ==
    /\ overall = StatusDegraded
    /\ checks["database"] = StatusUnhealthy
    /\ checks["features"] = StatusHealthy
    /\ DegradationConfigured

----------------------------------------------------------------------------
(* Claims about the shutdown Manager. *)

(* The calls of DB.Close made by the teardown goroutine. *)
ManagerCloses == {i \in DOMAIN dbCloses : dbCloses[i] = "manager"}

(* Hook number k has run and returned nil. *)
HookDone(k) == \E j \in DOMAIN steps : steps[j] = Step("hook", k, "ok")

(* C13: whatever the calls of Shutdown, no teardown step (the stop of the  *)
(* server, a hook, the close by the Manager) is begun twice, and a call    *)
(* that finds isShutdown set returns nil at once and changes nothing of    *)
(* the teardown.                                                           *)
C13_ShutdownIdempotent ==
    /\ [](\A i, j \in DOMAIN steps :
             (steps[i].step = steps[j].step /\ steps[i].hook = steps[j].hook)
                => i = j)
    /\ [](Cardinality(ManagerCloses) <= 1)
    /\ [][\A c \in Callers :
             (Shutdown(c) /\ isShutdown) =>
                /\ callers'[c] = [pc |-> "returned", ret |-> Nil]
                /\ UNCHANGED <<owner, tdPc, hookSnap, hookIdx, steps, done,
                               sent, listening, dbCloses, shutdownFn>>]_vars

C13_Witness ==
    /\ owner # 0
    /\ \E c \in Callers :
          c # owner /\ callers[c] = [pc |-> "returned", ret |-> Nil]
    /\ Len(steps) = 1
    /\ tdPc = "drain"

(* C14: a Shutdown call other than the one that runs the teardown returns  *)
(* nil only when the teardown has completed and sent nil.                  *)
C14_SecondCallerSeesResult ==
    \A c \in Callers :
        (c # owner /\ callers[c].pc = "returned" /\ callers[c].ret = Nil)
           => sent.res = Nil

(* C15: a hook is begun only after the stop of the server has ended well,  *)
(* the hooks run in the order of registration, one at a time, and the      *)
(* Manager closes the handle only when every hook registered by then has   *)
(* returned nil.                                                           *)
C15_TeardownOrder ==
    /\ []((\E i \in DOMAIN steps : steps[i].step = "hook")
             => steps[1] = Step("stop", 0, "ok"))
    /\ [](\A i \in DOMAIN steps :
             /\ steps[i].step = "hook" => steps[i].hook = i - 1
             /\ i < Len(steps) => steps[i].res = "ok")
    /\ [][TeardownClose =>
             \A k \in 1..Len(shutdownFn) : HookDone(k)]_vars

(* C16 as claimed: when hook k has returned an error no later hook runs,   *)
(* the Manager does not close the handle, and the Shutdown call that runs  *)
(* the teardown returns the error naming hook k.                           *)
C16_HookErrorReported ==
    \A i \in DOMAIN steps :
        (steps[i].step = "hook" /\ steps[i].res = "err") =>
            /\ i = Len(steps)
            /\ ManagerCloses = {}
            /\ callers[owner].pc = "returned" =>
                  callers[owner].ret = Result("hook", steps[i].hook)

(* C16 as amended: ... returns a non-nil error, the one naming hook k or,  *)
(* when its ctx is done, ctx.Err().                                        *)
C16_HookErrorOrDeadline ==
    \A i \in DOMAIN steps :
        (steps[i].step = "hook" /\ steps[i].res = "err") =>
            /\ i = Len(steps)
            /\ ManagerCloses = {}
            /\ sent.res = Result("hook", steps[i].hook)
            /\ callers[owner].pc = "returned" =>
                  \/ callers[owner].ret = Result("hook", steps[i].hook)
                  \/ callers[owner].ret = Result("ctx", 0) /\ ctxDone

C16_Witness ==
    /\ Len(shutdownFn) = 2
    /\ steps = <<Step("stop", 0, "ok"), Step("hook", 1, "err")>>
    /\ callers[owner] = [pc |-> "returned", ret |-> Result("hook", 1)]
    /\ dbCloses = <<>>

(* C17: when the ctx of the Shutdown call that runs the teardown was done  *)
(* before the teardown sent its result (or no result was sent), the call   *)
(* returns ctx.Err(), bare or wrapped by the stop of the server.           *)
C17_DeadlineResult ==
    (owner # 0 /\ callers[owner].pc = "returned"
       /\ (sent.res = NoResult \/ sent.late))
        => callers[owner].ret \in {Result("ctx", 0), Result("serverctx", 0)}

(* C18: an AddShutdownHook that was called after Shutdown had begun leaves *)
(* shutdownFn as it was, and no hook that Shutdown runs was registered     *)
(* after Shutdown had begun.                                               *)
C18_HooksImmutable ==
    /\ [][(AddShutdownHookEnd /\ appending[1].late)
             => shutdownFn' = shutdownFn]_vars
    /\ [](tdPc \in {"hooks", "inhook"} =>
             \A i \in DOMAIN hookSnap :
                 i <= hookIdx => ~hookSnap[i].late)

(* C19: the Manager closes the handle only when no request is being        *)
(* served, and none is served after it; when the stop of the server has    *)
(* failed or timed out, no hook runs and the Manager does not close the    *)
(* handle.                                                                 *)
C19_InFlightNotDropped ==
    /\ [][TeardownClose => active = 0]_vars
    /\ [](ManagerCloses # {} => active = 0)
    /\ []((Len(steps) >= 1 /\ steps[1].res = "err") =>
             /\ Len(steps) = 1
             /\ ManagerCloses = {}
             /\ tdPc = "end")

C19_Witness ==
    /\ steps = <<Step("stop", 0, "err")>>
    /\ active = 1
    /\ ctxDone
    /\ sent.res = Result("serverctx", 0)
    /\ dbCloses = <<>>

(* C20: only the Manager calls DB.Close, and it is called at most once. *)
C20_SingleCloser ==
    /\ Len(dbCloses) <= 1
    /\ \A i \in DOMAIN dbCloses : dbCloses[i] = "manager"

----------------------------------------------------------------------------
(* Claims about shutdown and the Checker together. *)

(* C21: a ReadinessCheck that begins when Shutdown has begun does not      *)
(* return true.                                                            *)
C21_UnreadyOnceShutdown ==
    [][/\ (isShutdown /\ ReadinessBegin /\ calls' = calls) => ~last'.ret
       /\ \A c \in InFlight : (ReadinessEnd(c) /\ c.shut) => ~last'.ret]_vars

(* C22: once the Manager has closed the handle the background loop begins  *)
(* no HealthCheck.                                                         *)
C22_LoopStops == [][BackgroundTick => ManagerCloses = {}]_vars

(* The calls of the background loop that hold the read lock. *)
BackgroundReaders == {c \in Readers : c.method = "backgroundHealthCheck"}

(* How many calls hold the read lock of Checker.mu. *)
ReaderCount ==
    BagCardinality([c \in Readers |-> CopiesIn(c, calls)])

(* C23: a step of HealthCheck, a request's or the background loop's,       *)
(* leaves startup and ready as they were.                                  *)
C23_HealthCheckFrame ==
    [][(\/ HealthCheckBegin
        \/ \E c \in InFlight : HealthCheckEnd(c)
        \/ BackgroundTick
        \/ \E c \in InFlight : BackgroundEnd(c))
          => UNCHANGED <<startup, ready>>]_vars

C23_Witness ==
    /\ startup
    /\ ~ready
    /\ last.method = "backgroundHealthCheck"
    /\ last.status = StatusHealthy
    /\ \E c \in InFlight : c.method = "HealthCheck"

(* C24: new readers of Checker.mu (the checks of requests) are never kept  *)
(* out by a Lock that waits for the background loop's HealthCheck alone.   *)
C24_BackgroundNeverBlocks ==
    ~(/\ ~CanRLock
      /\ Readers # {}
      /\ Readers = BackgroundReaders)

(* How many calls of ReadinessCheck, which writes c.ready, hold it. *)
ReadinessCount ==
    BagCardinality([c \in {r \in Readers : r.method = "ReadinessCheck"}
                      |-> CopiesIn(c, calls)])

(* C25: a ReadinessCheck writes c.ready only when no other ReadinessCheck  *)
(* holds Checker.mu, and the start-up goroutine writes c.startup only when *)
(* no call holds it.                                                       *)
C25_FlagWritesExclusive ==
    [][/\ \A c \in InFlight :
             (ReadinessEnd(c) /\ PingErr(c) = "nil") => ReadinessCount = 1
       /\ StartupFlip => ReaderCount = 0]_vars

----------------------------------------------------------------------------
(* Claims about the breaker's counts. *)

(* The calls inside their operation that the current generation admitted. *)
InGeneration ==
    BagCardinality([c \in {d \in InFlight : d.generation = cb.generation}
                      |-> CopiesIn(c, calls)])

(* C26: in Closed, whatever the interleaving, Requests is the number of    *)
(* calls the period has admitted: each admission adds one to it, each      *)
(* return of such a call adds one to the successes or to the failures, so  *)
(* that Requests = TotalSuccesses + TotalFailures + the calls still        *)
(* inside; and the state is one of the three.                              *)
C26_CountersLinearized ==
    /\ [](cb.state \in {StateClosed, StateOpen, StateHalfOpen})
    /\ [](cb.state = StateClosed =>
             cb.counts.Requests =
                cb.counts.TotalSuccesses + cb.counts.TotalFailures + InGeneration)
    /\ [][(/\ cb.state = StateClosed
           /\ cb'.counts # cb.counts
           /\ cb'.generation = cb.generation) =>
             IF BagCardinality(calls') > BagCardinality(calls)
             THEN /\ cb'.counts.Requests = cb.counts.Requests + 1
                  /\ cb'.counts.TotalSuccesses = cb.counts.TotalSuccesses
                  /\ cb'.counts.TotalFailures = cb.counts.TotalFailures
             ELSE /\ cb'.counts.Requests = cb.counts.Requests
                  /\ cb'.counts.TotalSuccesses + cb'.counts.TotalFailures =
                        cb.counts.TotalSuccesses + cb.counts.TotalFailures + 1]_vars

C26_Witness ==
    /\ cb.state = StateClosed
    /\ cb.counts.Requests = 3
    /\ cb.counts.TotalSuccesses = 2
    /\ cb.counts.TotalFailures = 1
    /\ calls = EmptyBag

(* C27: a step that takes the breaker to a new generation (every change of *)
(* state does, and the expiry of the interval in Closed) leaves all counts *)
(* zero; when the change came by the passing of time inside beforeRequest, *)
(* the counts were zero after it and hold the one request just admitted.   *)
C27_CountsClearedOnTransition ==
    /\ [][cb'.state # cb.state => cb'.generation # cb.generation]_vars
    /\ [][cb'.generation # cb.generation =>
             LET c1 == currentState(cb, Now)
             IN  IF c1.generation # cb.generation
                 THEN /\ c1.counts = ZeroCounts
                      /\ \/ cb' = c1
                         \/ /\ cb' = onRequest(c1)
                            /\ BagCardinality(calls') = BagCardinality(calls) + 1
                 ELSE cb'.counts = ZeroCounts]_vars

C27_Witness ==
    /\ cb.state = StateHalfOpen
    /\ cb.counts = [ZeroCounts EXCEPT !.Requests = 1]
    /\ BagCardinality(calls) = 1

----------------------------------------------------------------------------
(* Claims about the handlers. *)

(* The handler's dependency call failed. *)
CallFailed == resp.err \notin {"none", "nil"}

(* C28: when db.CreateUser has failed, CreateUser answers 503 with code    *)
(* degraded_mode if FEATURE_FLAGS enables graceful degradation and 500     *)
(* with code creation_failed if it does not; no other response carries     *)
(* degraded_mode.                                                          *)
C28_WritePathRejection ==
    /\ (resp.handler = "CreateUser" /\ CallFailed) =>
          IF isGracefulDegradationEnabled(env)
          THEN resp.status = StatusServiceUnavailable /\ resp.code = "degraded_mode"
          ELSE resp.status = StatusInternalServerError /\ resp.code = "creation_failed"
    /\ resp.code = "degraded_mode" => (resp.handler = "CreateUser" /\ CallFailed)

(* C29: with graceful degradation enabled GET /api/users answers 200 in    *)
(* every state of the breaker, with the users when db.GetUsers succeeded   *)
(* and with the fallback data when it failed.                              *)
C29_ReadFallback ==
    (isGracefulDegradationEnabled(env) /\ resp.handler = "GetUsers") =>
        /\ resp.status = StatusOK
        /\ resp.body = IF CallFailed THEN "fallback" ELSE "users"

C29_Witness ==
    /\ isGracefulDegradationEnabled(env)
    /\ resp.handler = "GetUsers"
    /\ cb.state = StateOpen
    /\ resp.err = "ErrOpenState"
    /\ resp.status = StatusOK
    /\ resp.body = "fallback"

----------------------------------------------------------------------------
(* Claims about the deployment and its documents. *)

(* C31: with the FEATURE_FLAGS of the manifests, once startup is complete   *)
(* and while the database is down, GET /health answers 503, GET /ready      *)
(* answers 503 and GET /api/users answers 200 with the fallback data.       *)
C31_DegradedProbes ==
    [][(startup /\ ~dbUp) =>
          /\ HandlerHealthCheck => resp'.status = StatusServiceUnavailable
          /\ HandlerReadinessCheck => resp'.status = StatusServiceUnavailable
          /\ HandlerGetUsers =>
                (resp'.status = StatusOK /\ resp'.body = "fallback")]_vars

(* C32: as the README states the breaker, a counted failure in Closed      *)
(* opens it exactly when it is the second failure in a row: never when the *)
(* call before it succeeded, always when the call before it failed,        *)
(* whatever the successes counted earlier in the interval.                 *)
C32_TripOnConsecutiveFailures ==
    [][\A c \in InFlight :
          (CallEnd(c) /\ CountedInClosed(c) /\ ~dbUp) =>
             (cb'.state = StateOpen <=> cb.counts.ConsecutiveFailures + 1 >= 2)]_vars

(* Every operation that returns now succeeds: the database answers, and no *)
(* Ping inside a check has outlived its context.                           *)
OperationsSucceed ==
    /\ dbUp
    /\ ~dbHangs
    /\ \A c \in InFlight : "deadline" \in DOMAIN c => Before(Now, c.deadline)

(* C33: when from some point on every operation succeeds, and calls keep   *)
(* arriving, the breaker is eventually closed and stays closed; with the   *)
(* breaker closed and the operations succeeding, a ReadinessCheck made     *)
(* after startup returns true and a HealthCheck reports Healthy.           *)
C33_AutomaticRecovery ==
    /\ (<>[]OperationsSucceed) => <>[](cb.state = StateClosed)
    /\ [][(OperationsSucceed /\ cb.state = StateClosed) =>
             \A c \in InFlight :
                 /\ ReadinessEnd(c) => (last'.ret /\ ready')
                 /\ HealthCheckEnd(c) => last'.status = StatusHealthy]_vars

C33_Witness ==
    /\ cb.state = StateClosed
    /\ cb.generation = 4
    /\ dbUp
    /\ last.method = "ReadinessCheck"
    /\ last.ret
    /\ last.db = StatusHealthy

(* C34: once the Shutdown call that runs the teardown has returned,        *)
(* whatever it returned, the teardown goroutine starts no hook and does    *)
(* not close the handle.                                                   *)
C34_TeardownStopsAtReturn ==
    [][(owner # 0 /\ callers[owner].pc = "returned") =>
          /\ ~TeardownHookStart
          /\ ~TeardownClose]_vars

(* C35: whatever FEATURE_FLAGS holds, a handler answers a failed call with *)
(* a degraded response (the fallback data, 503 degraded_mode) exactly      *)
(* when the Checker's isGracefulDegradationEnabled, which gives the        *)
(* override of readiness and health, is true.                              *)
C35_OneDegradationFlag ==
    (resp.handler \in {"GetUsers", "CreateUser"} /\ CallFailed) =>
        ((resp.body = "fallback" \/ resp.code = "degraded_mode")
            <=> isGracefulDegradationEnabled(env))

(* C36: while the breaker is open and its timeout not over, a HealthCheck  *)
(* and a ReadinessCheck report the database unhealthy without entering a   *)
(* Ping, whether or not the database answers again, and with degradation   *)
(* disabled the ReadinessCheck returns false; a probe's Ping that fails in *)
(* Closed is counted as a failure or opens the breaker.                    *)
C36_ProbesThroughGate ==
    /\ [][OpenEarly =>
             /\ HealthCheckBegin =>
                   /\ last'.err = "ErrOpenState"
                   /\ last'.db = StatusUnhealthy
                   /\ calls' = calls
                   /\ cb' = cb
             /\ (ReadinessBegin /\ startup) =>
                   /\ last'.err = "ErrOpenState"
                   /\ last'.db = StatusUnhealthy
                   /\ calls' = calls
                   /\ cb' = cb
                   /\ ~isGracefulDegradationEnabled(env) => ~last'.ret]_vars
    /\ [][\A c \in InFlight :
             (/\ HealthCheckEnd(c) \/ ReadinessEnd(c)
              /\ CountedInClosed(c)
              /\ PingErr(c) # "nil") =>
                \/ cb'.state = StateOpen
                \/ /\ cb'.state = StateClosed
                   /\ cb'.counts.TotalFailures = cb.counts.TotalFailures + 1]_vars

C36_Witness ==
    /\ OpenEarly
    /\ dbUp
    /\ ~isGracefulDegradationEnabled(env)
    /\ last.method = "ReadinessCheck"
    /\ last.err = "ErrOpenState"
    /\ ~last.ret

(* C37: ready, which IsReady returns, is false until startup is complete,  *)
(* is never reset, and is set only by a ReadinessCheck that ran after      *)
(* startup and whose database check was not unhealthy; a ReadinessCheck    *)
(* that found the database unhealthy, and returned true by the degradation *)
(* override or false, leaves it as it was.                                 *)
C37_ReadyMonotonic ==
    /\ [](~startup => ~ready)
    /\ [][ready => ready']_vars
    /\ [][(~ready /\ ready') =>
             \E c \in InFlight :
                 /\ ReadinessEnd(c)
                 /\ startup
                 /\ last'.db = StatusHealthy
                 /\ last'.ret]_vars
    /\ [][\A c \in InFlight :
             (ReadinessEnd(c) /\ last'.db = StatusUnhealthy) => ready' = ready]_vars
    /\ [][IsReady => last'.ret = ready]_vars

C37_Witness ==
    /\ ~ready
    /\ startup
    /\ last.method = "ReadinessCheck"
    /\ last.db = StatusUnhealthy
    /\ last.ret

(* C38: when every operation entered returns, a half-open breaker that     *)
(* refuses calls (its three probes are admitted) does not stay half-open;  *)
(* once the three probes have all returned it is open or closed.           *)
C38_HalfOpenNoTrap ==
    /\ []((cb.state = StateHalfOpen /\ cb.counts.Requests >= maxRequests)
             => InGeneration > 0)
    /\ (cb.state = StateHalfOpen /\ cb.counts.Requests >= maxRequests)
          ~> (cb.state \in {StateOpen, StateClosed})

C38_Witness ==
    /\ cb.state = StateHalfOpen
    /\ cb.counts.Requests = 3
    /\ cb.counts.ConsecutiveSuccesses = 2
    /\ InGeneration = 1
    /\ last.err = "ErrTooManyRequests"

(* C39: a call that was admitted in an earlier generation (in Closed, say, *)
(* before the breaker went open and half-open) and returns now changes     *)
(* neither the state nor the counts, whether it succeeded or failed: the   *)
(* breaker is as the passing of time alone leaves it, and a half-open      *)
(* breaker is unchanged.                                                   *)
C39_StaleResultIgnored ==
    [][\A c \in InFlight :
          (CallEnd(c) /\ c.generation # currentState(cb, Now).generation) =>
              /\ cb' = currentState(cb, Now)
              /\ cb.state = StateHalfOpen => (cb' = cb /\ probes' = probes)]_vars

C39_Witness ==
    /\ cb.state = StateHalfOpen
    /\ cb.counts.Requests = 1
    /\ cb.counts.TotalSuccesses = 1
    /\ InGeneration = 0
    /\ last.err = "opError"
    /\ calls = EmptyBag
====
